---- MODULE Spec2Model ----
(***************************************************************************)
(* Reaction-driven tally cards of inatcog (src/inatcog/listeners.py).      *)
(*                                                                         *)
(* A card is a bot message whose embed description carries, as text, a     *)
(* tally of users or places.  Reactions on the card add, remove or toggle  *)
(* entries.  Every reaction is handled by its own asyncio task; tasks      *)
(* interleave at their awaits.  The description is modelled line by line:  *)
(* line 1 is the text before the first newline, every later line is        *)
(* preceded by a newline in the text.  The regular expressions of the      *)
(* source are modelled by what they match on such lines.                   *)
(***************************************************************************)
EXTENDS Integers, Sequences, FiniteSets, TLC

(***************************************************************************)
(* Bounds of the model.                                                    *)
(***************************************************************************)
\* Number of reaction handlers that may be in flight at the same time.
NumTasks == 2

Tasks == 1..NumTasks

\* Reactions are taken for a card as long as its description has fewer lines
\* than this.
MaxLines == 6

\* The cards (bot messages) reactions arrive for.
MsgIds == {"m"}

\* Guild members, all known to the user table; their iNat logins.  "al" is a
\* prefix of "ali".
Members == {"u1", "u2", "u3"}

\* A guild member who is not in the user table.
Guest == "guest"

\* The members of the guild that are no bots.
GuildMembers == Members \cup {Guest}

login(member) ==
    CASE member = "u1" -> <<"a", "l">>
      [] member = "u2" -> <<"a", "l", "i">>
      [] OTHER         -> <<"b", "o">>

\* Places of the place table, by id.  "N" is a prefix of "NS"; "1M" starts
\* with a character that a login may start with.
PlaceIds == {1, 2, 3}

display_name(place) ==
    CASE place = 1 -> <<"N">>
      [] place = 2 -> <<"N", "S">>
      [] OTHER     -> <<"1", "M">>

\* config.user(member).home(): the home place of a member, NoHome if unset.
NoHome == 0

home(member) ==
    CASE member = "u1" -> 1
      [] member = "u2" -> 2
      [] OTHER         -> NoHome

\* get_observations: the observation count the API answers for a subject of
\* the card's taxon, the same during a run.
observations(key) == IF Len(key) = 2 THEN 3 ELSE 5

(***************************************************************************)
(* The text of a card.                                                     *)
(***************************************************************************)
TitleLine == [kind |-> "text", text |-> "title"]

\* taxa.TAXON_COUNTS_HEADER and taxa.TAXON_PLACES_HEADER, the banner lines.
TAXON_COUNTS_HEADER == [kind |-> "text", text |-> "by user"]

TAXON_PLACES_HEADER == [kind |-> "text", text |-> "from place"]

\* The name a total line carries: *total*
TotalName == <<"*", "t", "o", "t", "a", "l", "*">>

\* A line "[count](url) name"; the url names what it filters on (param and
\* the ids, joined by commas in the text).
LinkLine(count, param, ids, name) ==
    [kind |-> "link", count |-> count, param |-> param, ids |-> ids,
     name |-> name]

\* The characters of [-_a-z0-9].
LoginChars ==
    {"a", "b", "c", "d", "e", "f", "g", "h", "i", "j", "k", "l", "m", "n",
     "o", "p", "q", "r", "s", "t", "u", "v", "w", "x", "y", "z", "0", "1",
     "2", "3", "4", "5", "6", "7", "8", "9", "-", "_"}

IsPrefix(p, s) == Len(p) <= Len(s) /\ SubSeq(s, 1, Len(p)) = p

\* The lines of d whose index is in keep, in order.
KeepLines(d, keep) ==
    LET F[k \in 0..Len(d)] ==
            IF k = 0 THEN <<>>
            ELSE IF k \in keep THEN Append(F[k - 1], d[k]) ELSE F[k - 1]
    IN  F[Len(d)]

\* A line that starts with \[[0-9 \(\)]+\]\(.*?\) and a blank: a count in
\* brackets, a link in parentheses.
IsCountsLine(line) == line.kind = "link"

\* re.search(counts_pat, description) with counts_pat the line start (or the
\* text start), a count, a link and the key: the key is matched as a prefix
\* of the name on the line.
SearchCounts(key, description) ==
    \E i \in 1..Len(description) :
        IsCountsLine(description[i]) /\ IsPrefix(key, description[i].name)

\* re.sub(r"\n\[[0-9 \(\)]+?\]\(.*?\) \*total\*", "", description).  In this
\* model only total lines have a name that starts with *total*, and their
\* name ends there, so the match is the whole line with its newline.
RemoveTotal(description) ==
    KeepLines(description,
              {i \in 1..Len(description) :
                  ~(i >= 2 /\ IsCountsLine(description[i])
                           /\ IsPrefix(TotalName, description[i].name))})

\* The longest prefix of name in [-_a-z0-9]+ (greedy), <<>> if there is none.
LoginPrefix(name) ==
    LET ok == {k \in 0..Len(name) : \A j \in 1..k : name[j] \in LoginChars}
        n  == CHOOSE k \in ok : \A k2 \in ok : k2 <= k
    IN  SubSeq(name, 1, n)

\* re.findall(r"\n\[[0-9 \(\)]+\]\(.*?\) (?P<user_id>[-_a-z0-9]+)", description):
\* the logins of the counts lines after line 1 whose name starts with a
\* login character.
UserMatches(description) ==
    LET F[k \in 0..Len(description)] ==
            IF k = 0 THEN <<>>
            ELSE IF /\ k >= 2
                    /\ IsCountsLine(description[k])
                    /\ LoginPrefix(description[k].name) # <<>>
                 THEN Append(F[k - 1], LoginPrefix(description[k].name))
                 ELSE F[k - 1]
    IN  F[Len(description)]

\* len(re.findall(r"\n\[[0-9 \(\)]+\]\(.*?\) (.*?)(\n|$)", description)): each
\* match consumes the newline that ends its line, which is the newline the
\* next line would need to start its own match, so the line right after a
\* matched line is never matched.
PlaceLineMatches(description) ==
    LET F[k \in 1..Len(description)] ==
            \* <<number of matches in lines 2..k, whether line k matched>>
            IF k = 1 THEN <<0, FALSE>>
            ELSE IF IsCountsLine(description[k]) /\ ~F[k - 1][2]
                 THEN <<F[k - 1][1] + 1, TRUE>>
                 ELSE <<F[k - 1][1], FALSE>>
    IN  IF description = <<>> THEN 0 ELSE F[Len(description)][1]

\* re.findall(r"\n\[[0-9 \(\)]+\]\(.*?&place_id=(?P<place_id>\d+?)&.*?\) .*?(?:(?=\n|$))",
\* description): the place ids of the counts lines after line 1 whose link
\* filters on one place id (digits only, so not a comma-joined list).
PlaceIdMatches(description) ==
    LET F[k \in 0..Len(description)] ==
            IF k = 0 THEN <<>>
            ELSE IF /\ k >= 2
                    /\ IsCountsLine(description[k])
                    /\ description[k].param = "place_id"
                    /\ Len(description[k].ids) = 1
                 THEN Append(F[k - 1], description[k].ids[1])
                 ELSE F[k - 1]
    IN  F[Len(description)]

\* A substitution that takes out every line of text after the first.
RemoveHeaderText(header, description) ==
    KeepLines(description,
              {i \in 1..Len(description) :
                  i = 1 \/ description[i].kind # "text"})

\* re.sub(TAXON_COUNTS_HEADER_PAT, "", description), and the same for places:
\* the banner line is taken out.
RemoveHeader(header, description) ==
    KeepLines(description,
              {i \in 1..Len(description) : description[i] # header})

\* A search that never finds the banner line.
SearchHeaderNever(header, description) == FALSE

\* re.search(TAXON_COUNTS_HEADER_PAT, description), and the same for places.
SearchHeader(header, description) ==
    \E i \in 1..Len(description) : description[i] = header

\* re.sub(counts_pat + r".*?((?=\n)|$)", "", description): every line the key
\* matches is taken out with the newline before it; line 1 has no newline
\* before it and is emptied.
RemoveCounts(key, description) ==
    LET hit(i) == /\ IsCountsLine(description[i])
                  /\ IsPrefix(key, description[i].name)
        rest == KeepLines(description,
                          {i \in 1..Len(description) : i = 1 \/ ~hit(i)})
    IN  IF description # <<>> /\ hit(1)
        THEN <<[kind |-> "text", text |-> ""]>> \o Tail(rest)
        ELSE rest

\* taxa.format_user_taxon_counts for one user: "[count](url) login".
format_user_taxon_counts(user_login, count) ==
    LinkLine(count, "user_id", <<user_login>>, user_login)

\* taxa.format_place_taxon_counts for one place: "[count](url) display_name",
\* the url filtering on the place id.
format_place_taxon_counts(place, count) ==
    LinkLine(count, "place_id", <<place>>, display_name(place))

\* The same two functions called with the comma-joined matches: a line
\* "[count](url) *total*" whose url filters on all of them.
format_total_counts(param, matches, count) ==
    LinkLine(count, param, matches, TotalName)

\* The count the API answers for the joined matches: the aggregate over the
\* counts lines after line 1 that filter on param and are no total.
AggregateCount(param, description) ==
    LET F[k \in 0..Len(description)] ==
            IF k = 0 THEN 0
            ELSE IF /\ k >= 2
                    /\ IsCountsLine(description[k])
                    /\ description[k].param = param
                    /\ ~IsPrefix(TotalName, description[k].name)
                 THEN F[k - 1] + description[k].count
                 ELSE F[k - 1]
    IN  F[Len(description)]

(***************************************************************************)
(* update_totals and update_place_totals, cut at their awaits.             *)
(***************************************************************************)
\* update_totals up to its first await: the old total is dropped, then a
\* remove takes out the header (if one match is left) and the user's line,
\* and an add appends the header if there is no match yet.
update_totals_head(description, action, key) ==
    LET d       == RemoveTotal(description)
        matches == UserMatches(d)
    IN  IF action = "remove"
        THEN RemoveCounts(key,
                 IF Len(matches) = 1
                 THEN RemoveHeader(TAXON_COUNTS_HEADER, d) ELSE d)
        ELSE IF matches = <<>> THEN Append(d, TAXON_COUNTS_HEADER) ELSE d

\* update_place_totals up to its first await.
update_place_totals_head(description, action, key) ==
    LET d       == RemoveTotal(description)
        matches == PlaceLineMatches(d)
    IN  IF action = "remove"
        THEN RemoveCounts(key,
                 IF matches = 1
                 THEN RemoveHeader(TAXON_PLACES_HEADER, d) ELSE d)
        ELSE IF matches = 0 THEN Append(d, TAXON_PLACES_HEADER) ELSE d

TotalsHead(dim, description, action, key) ==
    IF dim = "user" THEN update_totals_head(description, action, key)
    ELSE update_place_totals_head(description, action, key)

\* The second findall of update_totals / update_place_totals: the matches the
\* total is asked for.
TotalMatches(dim, description) ==
    IF dim = "user" THEN UserMatches(description)
    ELSE PlaceIdMatches(description)

Param(dim) == IF dim = "user" THEN "user_id" ELSE "place_id"

\* "Total added only if more than one".
WantsTotal(dim, description) == Len(TotalMatches(dim, description)) > 1

\* The total line appended at the end of update_totals / update_place_totals.
TotalLine(dim, description) ==
    format_total_counts(Param(dim), TotalMatches(dim, description),
                        AggregateCount(Param(dim), description))

\* The entry line an add appends.
EntryLine(dim, key, place, count) ==
    IF dim = "user" THEN format_user_taxon_counts(key, count)
    ELSE format_place_taxon_counts(place, count)

\* re.search(r"\*total\*", embed.description) and the footer set from it.
Footer(dim, description) ==
    IF \E i \in 1..Len(description) :
           /\ IsCountsLine(description[i])
           /\ IsPrefix(TotalName, description[i].name)
    THEN dim ELSE ""

\* Every action taken as a toggle.
ResolveActionToggle(action, mat) == IF mat THEN "remove" ELSE "add"

\* action = "remove" if mat else "add", for a toggle.
ResolveAction(action, mat) ==
    IF action = "toggle" THEN (IF mat THEN "remove" ELSE "add") ELSE action

\* The update made whether or not the subject is on the card.
ChangesAlways(action, mat) == TRUE

\* (mat and action == "remove") or (not mat and action == "add")
Changes(action, mat) ==
    (mat /\ action = "remove") \/ (~mat /\ action = "add")

\* One whole mutation of a fetched message, with no other task in between:
\* what edit_totals_locked / edit_place_totals_locked write for it.
Mutate(dim, message, action, key, place, count) ==
    LET mat == SearchCounts(key, message.description)
        act == ResolveAction(action, mat)
        d1  == TotalsHead(dim, message.description, act, key)
        d2  == IF act = "add" THEN Append(d1, EntryLine(dim, key, place, count))
               ELSE d1
        d3  == IF WantsTotal(dim, d2) THEN Append(d2, TotalLine(dim, d2))
               ELSE d2
    IN  IF Changes(act, mat)
        THEN [description |-> d3, footer |-> Footer(dim, d3)]
        ELSE message

(***************************************************************************)
(* State.                                                                  *)
(***************************************************************************)
VARIABLES
    messages,         \* the platform's copy of each card: description, footer
    deleted,          \* whether another actor has deleted the card
    reaction_locks,   \* self.reaction_locks: one asyncio.Lock per message id
    predicate_locks,  \* self.predicate_locks: one asyncio.Lock per user id
    tasks,            \* the reaction handlers: position and local variables
    serial            \* history: the mutations of each card run one by one,
                      \* in the order in which they were written back

vars == <<messages, deleted, reaction_locks, predicate_locks, tasks, serial>>

\* A task that handles no reaction; the local variables of a handler.
\*   msg, member      the card and the reacting member
\*   dim, request, key, place   what the mutation was called with
\*   action           the action, a toggle resolved once the card is fetched
\*   fetched          the description fetched under the lock
\*   description      the local of update_totals / update_place_totals
\*   count            the count the API answered for the new entry
\*   query            the prompt message of query_locked: "", "sent", and
\*                    after the cleanup "deleted" or "left" in the channel
\*   reply            what the wait for the reply ended with: "timeout",
\*                    "command" or "answer"
\*   response         the reply message: "", "there", and after the cleanup
\*                    "deleted" or "left" in the channel
\*   who              the member the reply names, Nobody if it names none
\*   result           how the handler ended
NoTask ==
    [pc |-> "idle", msg |-> "", member |-> "", dim |-> "",
     request |-> "", action |-> "", key |-> <<>>, place |-> 0,
     fetched |-> <<>>,
     description |-> <<>>, count |-> 0,
     query |-> "", reply |-> "", response |-> "", who |-> "",
     result |-> ""]

Ended(result) == [NoTask EXCEPT !.pc = "done", !.result = result]

\* A card as first rendered: a title and no tally.
NewCard == [description |-> <<TitleLine>>, footer |-> ""]

NoLock == [created |-> FALSE, locked |-> FALSE, waiters |-> <<>>]

Init ==
    /\ messages = [m \in MsgIds |-> NewCard]
    /\ deleted = [m \in MsgIds |-> FALSE]
    /\ reaction_locks = [m \in MsgIds |-> NoLock]
    /\ predicate_locks = [u \in GuildMembers |-> [locked |-> FALSE]]
    /\ tasks = [t \in Tasks |-> NoTask]
    /\ serial = [m \in MsgIds |-> NewCard]

(***************************************************************************)
(* asyncio.Lock as the handlers use it.                                    *)
(***************************************************************************)
\* A lock that never makes anybody wait.
LockFreeAlways(lock) == TRUE

\* Lock.acquire returns at once when the lock is not held and nobody waits.
LockFree(lock) == ~lock.locked /\ lock.waiters = <<>>

\* A release that marks the lock free even when it wakes a waiter.
ReleasedUnlocked(lock) ==
    IF lock.waiters = <<>> THEN [lock EXCEPT !.locked = FALSE]
    ELSE [lock EXCEPT !.locked = FALSE, !.waiters = Tail(@)]

\* Lock.release: the lock goes to the first waiter, if any.
Released(lock) ==
    IF lock.waiters = <<>> THEN [lock EXCEPT !.locked = FALSE]
    ELSE [lock EXCEPT !.waiters = Tail(@)]

\* A release that wakes nobody.
WokenNone(lock) == {}

\* The waiter that a release wakes: the first in the queue.
Woken(lock) == IF lock.waiters = <<>> THEN {} ELSE {Head(lock.waiters)}

\* Task t leaves the "async with" of message m as `after`.
LeaveLock(t, m, after) ==
    /\ reaction_locks' = [reaction_locks EXCEPT ![m] = Released(@)]
    /\ tasks' = [u \in Tasks |->
                    IF u = t THEN after
                    ELSE IF u \in Woken(reaction_locks[m])
                         THEN [tasks[u] EXCEPT !.pc = "locked"]
                         ELSE tasks[u]]

(***************************************************************************)
(* handle_member_reaction.                                                 *)
(***************************************************************************)
Emojis == {"self", "user", "home", "place"}

\* A handler that calls maybe_update_member / maybe_update_place and is
\* suspended before the lock (get_user, get_taxon).
Started(m, dim, action, key, place) ==
    [NoTask EXCEPT !.pc = "start", !.msg = m, !.dim = dim,
                   !.request = action, !.action = action, !.key = key,
                   !.place = place]

\* A user table that knows everybody.
KnownAll(member) == TRUE

\* self.user_table.get_user(member) finds the member; for the others it
\* raises LookupError, which the callers answer with "return".
Known(member) == member \in Members

\* A user lock that never shows as held.
OutstandingNever(lock) == FALSE

\* "if lock.locked(): return": a query of this user has not been answered.
Outstanding(lock) == lock.locked

\* A user lock that is entered without being taken.
HeldNot(lock) == [lock EXCEPT !.locked = FALSE]

\* "async with self.predicate_locks[user.id]": the free lock is taken at once.
Held(lock) == [lock EXCEPT !.locked = TRUE]

\* on_raw_reaction_add / on_raw_reaction_remove (event is "add" or "remove")
\* and handle_member_reaction up to its first await.  The message object
\* handed over shows the card as it is now; has_users and has_places are
\* read from it once.  A member the user table does not know, a member
\* without a home place and a home place the place table cannot find
\* (found is the answer of get_place) end the handler.
Dispatch(t, m, member, emoji, event) ==
    LET held       == messages[m].description
        has_users  == SearchHeader(TAXON_COUNTS_HEADER, held)
        has_places == SearchHeader(TAXON_PLACES_HEADER, held)
        lock       == predicate_locks[member]
        ask        == [NoTask EXCEPT !.pc = "prompt", !.msg = m,
                                     !.member = member, !.query = "sent",
                                     !.dim = IF emoji = "user" THEN "user"
                                             ELSE "place"]
    IN
    /\ tasks[t].pc \in {"idle", "done"}
    /\ ~deleted[m]
    /\ Len(held) < MaxLines
    /\ UNCHANGED <<messages, deleted, reaction_locks, serial>>
    /\ CASE emoji = "self" /\ ~has_places ->
              \* maybe_update_member(message, member, action)
              /\ tasks' = [tasks EXCEPT ![t] =
                    IF ~Known(member) THEN Ended("unregistered")
                    ELSE Started(m, "user", event, login(member), 0)]
              /\ UNCHANGED predicate_locks
         [] emoji = "home" /\ ~has_users ->
              \* maybe_update_place(message, member, action)
              /\ \E found \in BOOLEAN :
                    tasks' = [tasks EXCEPT ![t] =
                       IF ~Known(member) THEN Ended("unregistered")
                       ELSE IF home(member) = NoHome \/ ~found
                       THEN Ended("none")
                       ELSE Started(m, "place", event,
                                    display_name(home(member)),
                                    home(member))]
              /\ UNCHANGED predicate_locks
         [] \/ emoji = "user" /\ ~has_places
            \/ emoji = "place" /\ ~has_users ->
              \* maybe_update_member_by_name / maybe_update_place_by_name:
              \* query_locked up to the wait for the reply, the prompt sent
              IF ~Known(member)
              THEN /\ tasks' = [tasks EXCEPT ![t] = Ended("unregistered")]
                   /\ UNCHANGED predicate_locks
              ELSE IF Outstanding(lock)
              THEN /\ tasks' = [tasks EXCEPT ![t] = Ended("busy")]
                   /\ UNCHANGED predicate_locks
              ELSE /\ tasks' = [tasks EXCEPT ![t] = ask]
                   /\ predicate_locks' =
                          [predicate_locks EXCEPT ![member] = Held(@)]
         [] OTHER ->
              \* the card shows the header of the other dimension
              /\ tasks' = [tasks EXCEPT ![t] = Ended("suppressed")]
              /\ UNCHANGED predicate_locks

\* query_locked from the reply on: the reply names a member or a place the
\* tables know, the user lock is released and the subject is toggled.
Answered(t, who, place) ==
    LET task == tasks[t] IN
    /\ task.pc = "prompt"
    /\ predicate_locks' = [predicate_locks EXCEPT ![task.member].locked = FALSE]
    /\ tasks' = [tasks EXCEPT ![t] =
          IF task.dim = "user"
          THEN Started(task.msg, "user", "toggle", login(who), 0)
          ELSE Started(task.msg, "place", "toggle", display_name(place),
                       place)]
    /\ UNCHANGED <<messages, deleted, reaction_locks, serial>>

\* query_locked when no reply comes in time, the reply is a command, or the
\* reply names nobody: the user lock is released and nothing is toggled.
NoAnswer(t) ==
    /\ tasks[t].pc = "prompt"
    /\ predicate_locks' =
           [predicate_locks EXCEPT ![tasks[t].member].locked = FALSE]
    /\ tasks' = [tasks EXCEPT ![t] = Ended("none")]
    /\ UNCHANGED <<messages, deleted, reaction_locks, serial>>

(***************************************************************************)
(* edit_totals_locked and edit_place_totals_locked.                        *)
(***************************************************************************)
\* A handler that takes the lock of every message.
AcquireAll(t) ==
    /\ tasks[t].pc = "start"
    /\ reaction_locks' =
          [m \in DOMAIN reaction_locks |->
              [reaction_locks[m] EXCEPT !.created = TRUE, !.locked = TRUE]]
    /\ tasks' = [tasks EXCEPT ![t].pc = "locked"]
    /\ UNCHANGED <<messages, deleted, predicate_locks, serial>>

\* A handler that takes one lock, whatever the message.
AcquireShared(t) ==
    LET lock == reaction_locks["m"] IN
    /\ tasks[t].pc = "start"
    /\ IF LockFree(lock)
       THEN /\ reaction_locks' = [reaction_locks EXCEPT !["m"] =
                   [lock EXCEPT !.created = TRUE, !.locked = TRUE]]
            /\ tasks' = [tasks EXCEPT ![t].pc = "locked"]
       ELSE /\ reaction_locks' = [reaction_locks EXCEPT !["m"] =
                   [lock EXCEPT !.created = TRUE,
                                !.waiters = Append(@, t)]]
            /\ tasks' = [tasks EXCEPT ![t].pc = "waiting"]
    /\ UNCHANGED <<messages, deleted, predicate_locks, serial>>

\* A handler that puts a new lock into the registry at every request.
AcquireFresh(t) ==
    /\ tasks[t].pc = "start"
    /\ reaction_locks' = [reaction_locks EXCEPT ![tasks[t].msg] =
           [created |-> TRUE, locked |-> TRUE, waiters |-> <<>>]]
    /\ tasks' = [tasks EXCEPT ![t].pc = "locked"]
    /\ UNCHANGED <<messages, deleted, predicate_locks, serial>>

\* "if msg.id not in self.reaction_locks: ...; async with ...": the lock is
\* created on first use and taken, or the task queues for it.
Acquire(t) ==
    LET m    == tasks[t].msg
        lock == reaction_locks[m]
    IN
    /\ tasks[t].pc = "start"
    /\ IF LockFree(lock)
       THEN /\ reaction_locks' = [reaction_locks EXCEPT ![m] =
                   [lock EXCEPT !.created = TRUE, !.locked = TRUE]]
            /\ tasks' = [tasks EXCEPT ![t].pc = "locked"]
       ELSE /\ reaction_locks' = [reaction_locks EXCEPT ![m] =
                   [lock EXCEPT !.created = TRUE,
                                !.waiters = Append(@, t)]]
            /\ tasks' = [tasks EXCEPT ![t].pc = "waiting"]
    /\ UNCHANGED <<messages, deleted, predicate_locks, serial>>

\* The description of a copy of the card that was handed out when the card
\* was rendered and never fetched again.
HeldCopy(t, m) == NewCard.description

\* The description the mutation of task t on message m works on:
\* msg = await msg.channel.fetch_message(msg.id); embed.description or "".
Refetched(t, m) == messages[m].description

\* A fetch whose NotFound is not caught: it leaves the lock and the handler
\* as an exception.
FetchNotFoundRaised(t, m) ==
    /\ LeaveLock(t, m, Ended("raised"))
    /\ UNCHANGED serial

\* "except discord.errors.NotFound: return": the message is gone, the handler
\* leaves the lock and ends.
FetchNotFound(t, m) ==
    /\ LeaveLock(t, m, Ended("gone"))
    /\ UNCHANGED serial

\* fetch_message returns or fails, and the handler runs on to its next
\* await: the message is gone (return), nothing is to change (the lock is
\* left), or update_totals runs up to its first await.
Fetch(t) ==
    LET task == tasks[t]
        m    == task.msg
        description == Refetched(t, m)
        mat  == SearchCounts(task.key, description)
        act  == ResolveAction(task.action, mat)
        head == TotalsHead(task.dim, description, act, task.key)
        work == [task EXCEPT !.fetched = description,
                             !.action = act, !.description = head]
    IN
    /\ task.pc = "locked"
    /\ UNCHANGED <<messages, deleted, predicate_locks>>
    /\ IF deleted[m]
       THEN FetchNotFound(t, m)
       ELSE IF ~Changes(act, mat)
       THEN /\ LeaveLock(t, m, Ended("unchanged"))
            /\ serial' = [serial EXCEPT ![m] =
                   Mutate(task.dim, @, task.request, task.key, task.place,
                          observations(task.key))]
       ELSE /\ tasks' = [tasks EXCEPT ![t] =
                   [work EXCEPT !.pc =
                       IF act = "add" THEN "count"
                       ELSE IF WantsTotal(task.dim, head) THEN "total"
                       ELSE "edit"]]
            /\ UNCHANGED <<reaction_locks, serial>>

\* An add that puts the new entry in front of the others, after line 1.
CountFirst(t) ==
    LET task == tasks[t]
        count == observations(task.key)
        description ==
            <<Head(task.description)>>
                \o <<EntryLine(task.dim, task.key, task.place, count)>>
                \o Tail(task.description)
    IN
    /\ task.pc = "count"
    /\ tasks' = [tasks EXCEPT ![t] =
          [task EXCEPT !.description = description, !.count = count,
                       !.pc = IF WantsTotal(task.dim, description)
                              THEN "total" ELSE "edit"]]
    /\ UNCHANGED <<messages, deleted, reaction_locks, predicate_locks, serial>>

\* format_user_taxon_counts / format_place_taxon_counts answers for the new
\* entry: its line is appended and the matches are counted again.
Count(t) ==
    LET task == tasks[t]
        count == observations(task.key)
        description == Append(task.description,
                           EntryLine(task.dim, task.key, task.place, count))
    IN
    /\ task.pc = "count"
    /\ tasks' = [tasks EXCEPT ![t] =
          [task EXCEPT !.description = description, !.count = count,
                       !.pc = IF WantsTotal(task.dim, description)
                              THEN "total" ELSE "edit"]]
    /\ UNCHANGED <<messages, deleted, reaction_locks, predicate_locks, serial>>

\* The same call answers for the joined matches: the total line is appended.
Total(t) ==
    LET task == tasks[t] IN
    /\ task.pc = "total"
    /\ tasks' = [tasks EXCEPT ![t] =
          [task EXCEPT !.description =
                          Append(@, TotalLine(task.dim, task.description)),
                       !.pc = "edit"]]
    /\ UNCHANGED <<messages, deleted, reaction_locks, predicate_locks, serial>>

\* await msg.edit(embed=embed): the new description and footer are written,
\* or the edit fails with NotFound, which leaves the "async with" and the
\* handler as an exception.
Edit(t) ==
    LET task == tasks[t]
        m    == task.msg
    IN
    /\ task.pc = "edit"
    /\ UNCHANGED <<deleted, predicate_locks>>
    /\ IF deleted[m]
       THEN /\ LeaveLock(t, m, Ended("raised"))
            /\ UNCHANGED <<messages, serial>>
       ELSE /\ LeaveLock(t, m, Ended("edited"))
            /\ messages' = [messages EXCEPT ![m] =
                   [description |-> task.description,
                    footer |-> Footer(task.dim, task.description)]]
            /\ serial' = [serial EXCEPT ![m] =
                   Mutate(task.dim, @, task.request, task.key, task.place,
                          task.count)]

\* Another actor deletes the card.
Delete(m) ==
    /\ ~deleted[m]
    /\ deleted' = [deleted EXCEPT ![m] = TRUE]
    /\ UNCHANGED <<messages, reaction_locks, predicate_locks, tasks, serial>>

Next ==
    \/ \E t \in Tasks, m \in MsgIds, member \in Members, emoji \in Emojis,
          event \in {"add", "remove"} : Dispatch(t, m, member, emoji, event)
    \/ \E t \in Tasks, who \in Members, place \in PlaceIds :
          Answered(t, who, place)
    \/ \E t \in Tasks : NoAnswer(t)
    \/ \E t \in Tasks : Acquire(t)
    \/ \E t \in Tasks : Fetch(t)
    \/ \E t \in Tasks : Count(t)
    \/ \E t \in Tasks : Total(t)
    \/ \E t \in Tasks : Edit(t)
    \/ \E m \in MsgIds : Delete(m)

Spec == Init /\ [][Next]_vars

(***************************************************************************)
(* The intake of reaction events and the prompter, step by step.           *)
(* Answered and NoAnswer above are the prompter seen from the tally: what  *)
(* it hands over.  Here query_locked is cut at each of its awaits, and the *)
(* events are the raw ones, before maybe_get_reaction.                     *)
(***************************************************************************)
\* Reactions are taken by the prompter specification as long as the card has
\* fewer lines than this.
MaxPromptLines == 3

\* Who raw events may name besides the members: another bot of the guild and
\* somebody who is no member of the guild.
OtherBot == "robot"

Stranger == "stranger"

Users == GuildMembers \cup {OtherBot, Stranger}

\* A message of the channel that this bot did not write.
TheirMessage == "theirs"

\* payload.guild_id of a reaction outside a guild.
NoGuild == "none"

Payloads ==
    [guild_id : {"guild", NoGuild}, user_id : Users,
     message_id : MsgIds \cup {TheirMessage}]

\* maybe_get_reaction without "if not payload.guild_id".
maybe_get_reaction_anywhere(payload) ==
    IF payload.user_id \notin GuildMembers THEN "ValueError"
    ELSE IF payload.message_id \in MsgIds /\ deleted[payload.message_id]
         THEN "ValueError"
    ELSE IF payload.message_id \notin MsgIds THEN "ValueError"
    ELSE "ok"

\* maybe_get_reaction: ValueError if the reaction is not on a guild channel,
\* the user is no guild member or is a bot, the message was deleted before it
\* could be fetched, or the message is not the bot's own.  A deleted message
\* is not in the cache.
maybe_get_reaction(payload) ==
    IF payload.guild_id = NoGuild THEN "ValueError"
    ELSE IF payload.user_id \notin GuildMembers THEN "ValueError"
    ELSE IF payload.message_id \in MsgIds /\ deleted[payload.message_id]
         THEN "ValueError"
    ELSE IF payload.message_id \notin MsgIds THEN "ValueError"
    ELSE "ok"

\* on_raw_reaction_add / on_raw_reaction_remove: "except ValueError: return",
\* or handle_member_reaction.
Reaction(t, payload, emoji, event) ==
    /\ tasks[t].pc \in {"idle", "done"}
    /\ IF maybe_get_reaction(payload) = "ValueError"
       THEN /\ tasks' = [tasks EXCEPT ![t] = Ended("discarded")]
            /\ UNCHANGED <<messages, deleted, reaction_locks,
                           predicate_locks, serial>>
       ELSE /\ Len(messages[payload.message_id].description) < MaxPromptLines
            /\ Dispatch(t, payload.message_id, payload.user_id, emoji, event)

\* A reply that names no member of the guild, or no place of the table.
Nobody == "nobody"

NoPlace == 0

\* self.bot.wait_for raises asyncio.TimeoutError: no message of the prompted
\* user came in the channel within the timeout.
TimedOut(t) ==
    /\ tasks[t].pc = "prompt"
    /\ tasks' = [tasks EXCEPT ![t].pc = "cleanup", ![t].reply = "timeout"]
    /\ UNCHANGED <<messages, deleted, reaction_locks, predicate_locks, serial>>

\* What a reply may start with: nothing of note, a prefix of this bot, or a
\* prefix configured for another bot of the guild.
NoPrefix == "plain"

BotPrefix == "own"

OtherBotPrefix == "other"

Prefixes == {NoPrefix, BotPrefix, OtherBotPrefix}

\* A test that knows the prefixes of this bot only.
is_query_response_own(prefix) == prefix # BotPrefix

\* is_query_response: the reply does not start with one of
\* get_valid_prefixes(msg.guild) + config.bot_prefixes().
is_query_response(prefix) == prefix \notin {BotPrefix, OtherBotPrefix}

\* self.bot.wait_for returns a message of the prompted user: what it starts
\* with, and the member or place its text names, if any.  (A command names
\* none.)
Replied(t, prefix, who, place) ==
    LET task == tasks[t] IN
    /\ task.pc = "prompt"
    /\ IF prefix # NoPrefix THEN who = Nobody /\ place = NoPlace
       ELSE IF task.dim = "user" THEN place = NoPlace
       ELSE who = Nobody
    /\ tasks' = [tasks EXCEPT ![t] =
          [task EXCEPT !.pc = "cleanup",
                       !.reply = IF is_query_response(prefix) THEN "answer"
                                 ELSE "command",
                       !.response = "there", !.who = who, !.place = place]]
    /\ UNCHANGED <<messages, deleted, reaction_locks, predicate_locks, serial>>

\* A user lock that stays held when the block is left.
UserLockKept(lock) == lock

\* Leaving "async with self.predicate_locks[user.id]".
UserLockReleased(lock) == [lock EXCEPT !.locked = FALSE]

\* "with contextlib.suppress(discord.HTTPException): await query.delete();
\* return".  When the delete fails the return is skipped, and
\* is_query_response(None) raises AttributeError on response.content.
AfterTimeout(task, single) ==
    IF single THEN [task EXCEPT !.pc = "returned", !.query = "deleted"]
    ELSE Ended("raised")

\* The reply was a command: the prompt is deleted (a failure is suppressed),
\* response = None, and query_locked returns None.
AfterCommand(task, single) ==
    [task EXCEPT !.pc = "returned",
                 !.query = IF single THEN "deleted" ELSE "left",
                 !.response = "left"]

\* An answer whose failed deletion leaves the handler as an exception.
AfterAnswerStrict(task, bulk, single) ==
    IF bulk
    THEN [task EXCEPT !.pc = "returned", !.query = "deleted",
                      !.response = "deleted"]
    ELSE Ended("raised")

\* The reply is an answer: delete_messages((query, response)) and, if that
\* fails, query.delete() with its failure suppressed; query_locked returns
\* the response.
AfterAnswer(task, bulk, single) ==
    [task EXCEPT !.pc = "returned",
                 !.query = IF bulk \/ single THEN "deleted" ELSE "left",
                 !.response = IF bulk THEN "deleted" ELSE "left"]

\* A prompter that returns with its user lock still held.
CleanupHolding(t, bulk, single) ==
    LET task == tasks[t] IN
    /\ task.pc = "cleanup"
    /\ tasks' = [tasks EXCEPT ![t] =
          CASE task.reply = "timeout" -> AfterTimeout(task, single)
            [] task.reply = "command" -> AfterCommand(task, single)
            [] OTHER                  -> AfterAnswer(task, bulk, single)]
    /\ UNCHANGED <<messages, deleted, reaction_locks, predicate_locks, serial>>

\* query_locked from the end of the wait to its return.  bulk and single say
\* whether the platform carries out delete_messages and query.delete.
Cleanup(t, bulk, single) ==
    LET task == tasks[t] IN
    /\ task.pc = "cleanup"
    /\ predicate_locks' =
          [predicate_locks EXCEPT ![task.member] = UserLockReleased(@)]
    /\ tasks' = [tasks EXCEPT ![t] =
          CASE task.reply = "timeout" -> AfterTimeout(task, single)
            [] task.reply = "command" -> AfterCommand(task, single)
            [] OTHER                  -> AfterAnswer(task, bulk, single)]
    /\ UNCHANGED <<messages, deleted, reaction_locks, serial>>

\* A reply that names nobody dropped without a word.
UnresolvedQuiet(task) == Ended("none")

\* "except BadArgument / LookupError as error: error_msg = await
\* msg.channel.send(error)": the error message is in the channel.
Unresolved(task) == [NoTask EXCEPT !.pc = "error", !.msg = task.msg]

\* "if response:" with the text the reply carries: the subject it names, to
\* be toggled, or the error.
Resolved(task) ==
    IF task.dim = "user"
    THEN IF task.who = Nobody THEN Unresolved(task)
         ELSE Started(task.msg, "user", "toggle", login(task.who), 0)
    ELSE IF task.place = NoPlace THEN Unresolved(task)
         ELSE Started(task.msg, "place", "toggle",
                      display_name(task.place), task.place)

\* maybe_update_member_by_name / maybe_update_place_by_name after
\* query_locked returned: without a response the handler ends; with one the
\* text is resolved and the subject is handed over with action "toggle", or
\* the error is sent.
Resolve(t) ==
    LET task == tasks[t] IN
    /\ task.pc = "returned"
    /\ tasks' = [tasks EXCEPT ![t] =
          IF task.reply = "answer" THEN Resolved(task) ELSE Ended("none")]
    /\ UNCHANGED <<messages, deleted, reaction_locks, predicate_locks, serial>>

\* "await asyncio.sleep(15); await error_msg.delete(); return": the error
\* message is deleted, or the delete fails and leaves the handler as an
\* exception.
ErrorDelete(t, ok) ==
    /\ tasks[t].pc = "error"
    /\ tasks' = [tasks EXCEPT ![t] =
          IF ok THEN Ended("none") ELSE Ended("raised")]
    /\ UNCHANGED <<messages, deleted, reaction_locks, predicate_locks, serial>>

PrompterNext ==
    \/ \E t \in Tasks, payload \in Payloads, emoji \in Emojis,
          event \in {"add", "remove"} : Reaction(t, payload, emoji, event)
    \/ \E t \in Tasks : TimedOut(t)
    \/ \E t \in Tasks, prefix \in Prefixes,
          who \in Members \cup {Nobody}, place \in PlaceIds \cup {NoPlace} :
          Replied(t, prefix, who, place)
    \/ \E t \in Tasks, bulk \in BOOLEAN, single \in BOOLEAN :
          Cleanup(t, bulk, single)
    \/ \E t \in Tasks : Resolve(t)
    \/ \E t \in Tasks, ok \in BOOLEAN : ErrorDelete(t, ok)
    \/ \E t \in Tasks : Acquire(t)
    \/ \E t \in Tasks : Fetch(t)
    \/ \E t \in Tasks : Count(t)
    \/ \E t \in Tasks : Total(t)
    \/ \E t \in Tasks : Edit(t)
    \/ \E m \in MsgIds : Delete(m)

PrompterSpec == Init /\ [][PrompterNext]_vars

(***************************************************************************)
(* Two cards in two channels, and the replies as the messages users type.  *)
(***************************************************************************)
\* Reactions are taken by the two-card specification as long as the card has
\* fewer lines than this.
MaxCardLines == 2

\* Two cards of the bot, each in a channel of its own.
Cards == {"m", "n"}

Channels == {"c", "d"}

channel(m) == IF m = "m" THEN "c" ELSE "d"

\* The members who react on the two cards.
CardMembers == {"u1", "u2"}

CardsInit ==
    /\ messages = [m \in Cards |-> NewCard]
    /\ deleted = [m \in Cards |-> FALSE]
    /\ reaction_locks = [m \in Cards |-> NoLock]
    /\ predicate_locks = [u \in GuildMembers |-> [locked |-> FALSE]]
    /\ tasks = [t \in Tasks |-> NoTask]
    /\ serial = [m \in Cards |-> NewCard]

\* A check that looks at the channel only.
same_context_channel(task, chan, author) == chan = channel(task.msg)

\* MessagePredicate.same_context(channel=msg.channel, user=user): the check
\* of the wait of a prompt, on a message that comes in.
same_context(task, chan, author) ==
    chan = channel(task.msg) /\ author = task.member

\* "message_without_command" is dispatched for a message a member typed in a
\* channel: the wait whose check accepts it returns it.
Message(author, chan, prefix, who, place) ==
    \E t \in Tasks :
        /\ tasks[t].pc = "prompt"
        /\ same_context(tasks[t], chan, author)
        /\ Replied(t, prefix, who, place)

\* handle_member_reaction for a reaction of a member on one of the two cards.
CardReaction(t, m, member, emoji, event) ==
    /\ Len(messages[m].description) < MaxCardLines
    /\ Dispatch(t, m, member, emoji, event)

CardsNext ==
    \/ \E t \in Tasks, m \in Cards, member \in CardMembers, emoji \in Emojis,
          event \in {"add", "remove"} : CardReaction(t, m, member, emoji, event)
    \/ \E t \in Tasks : TimedOut(t)
    \/ \E author \in CardMembers, chan \in Channels, prefix \in Prefixes,
          who \in {"u1", Nobody}, place \in {1, NoPlace} :
          Message(author, chan, prefix, who, place)
    \/ \E t \in Tasks, bulk \in BOOLEAN, single \in BOOLEAN :
          Cleanup(t, bulk, single)
    \/ \E t \in Tasks : Resolve(t)
    \/ \E t \in Tasks, ok \in BOOLEAN : ErrorDelete(t, ok)
    \/ \E t \in Tasks : Acquire(t)
    \/ \E t \in Tasks : Fetch(t)
    \/ \E t \in Tasks : Count(t)
    \/ \E t \in Tasks : Total(t)
    \/ \E t \in Tasks : Edit(t)

CardsSpec == CardsInit /\ [][CardsNext]_vars

(***************************************************************************)
(* Reading a card: the entries, totals and header of each dimension.       *)
(***************************************************************************)
Dims == {"user", "place"}

Header(dim) ==
    IF dim = "user" THEN TAXON_COUNTS_HEADER ELSE TAXON_PLACES_HEADER

IsTotalLine(line) == IsCountsLine(line) /\ line.name = TotalName

IsEntryOf(dim, line) ==
    IsCountsLine(line) /\ line.param = Param(dim) /\ line.name # TotalName

\* The entry lines of a dimension, in the order of the text.
EntryLines(dim, description) ==
    KeepLines(description,
              {i \in 1..Len(description) : IsEntryOf(dim, description[i])})

\* The total lines of a dimension.
TotalLines(dim, description) ==
    KeepLines(description,
              {i \in 1..Len(description) :
                  /\ IsTotalLine(description[i])
                  /\ description[i].param = Param(dim)})

\* What the links of the entries of a dimension filter on, in order.
EntryIds(dim, description) ==
    LET entries == EntryLines(dim, description)
    IN  [i \in 1..Len(entries) |-> entries[i].ids[1]]

EntryNames(dim, description) ==
    LET entries == EntryLines(dim, description)
    IN  {entries[i].name : i \in 1..Len(entries)}

\* The tasks inside the "async with" of message m: fetching, waiting for a
\* count, or writing back.
InCycle == {"locked", "count", "total", "edit"}

Cycling(m) == {t \in Tasks : tasks[t].msg = m /\ tasks[t].pc \in InCycle}

\* The message task t would write if its whole mutation ran now, alone.
RunAlone(t) ==
    Mutate(tasks[t].dim, messages[tasks[t].msg], tasks[t].request,
           tasks[t].key, tasks[t].place, observations(tasks[t].key))

(***************************************************************************)
(* Mutual exclusion of the mutations of one card.                          *)
(***************************************************************************)
\* C1: whatever the interleaving of the mutations of one message, its body
\* is the body obtained by running the mutations that were written back one
\* after another, in the order of their write-backs: no update is lost.
C1_Serializable == \A m \in MsgIds : messages[m] = serial[m]

\* Two mutations of one card overlapped, the one that had to wait for the
\* lock is about to write an entry after the other one wrote its own.
C1_Witness ==
    \E t \in Tasks, u \in Tasks :
        /\ tasks[t].pc = "edit" /\ tasks[t].action = "add"
        /\ tasks[u].pc = "waiting" /\ tasks[u].msg = tasks[t].msg
        /\ Len(EntryLines(tasks[t].dim, tasks[t].description)) >= 2

\* C2: at most one task is between the fetch of a message and the write-back
\* of its body, whatever the dimensions of the mutations.
C2_OneCycle == \A m \in MsgIds : Cardinality(Cycling(m)) <= 1

\* A user mutation is in its cycle and a place mutation of the same card
\* waits for the lock.
C2_Witness ==
    \E t \in Tasks, u \in Tasks :
        /\ tasks[t].pc \in {"count", "total", "edit"} /\ tasks[t].dim = "user"
        /\ tasks[u].pc = "waiting" /\ tasks[u].dim = "place"
        /\ tasks[u].msg = tasks[t].msg

\* C3: a mutation in its cycle works on the body that is on the platform
\* now, fetched under the lock: the description it fetched is the current
\* one, a toggle is resolved by the presence of the subject in it, and the
\* body about to be written is the mutation of it.
C3_FreshBody ==
    \A t \in Tasks :
        tasks[t].pc \in {"count", "total", "edit"} =>
            LET description == messages[tasks[t].msg].description IN
            /\ tasks[t].fetched = description
            /\ tasks[t].request = "toggle" =>
                   tasks[t].action =
                       IF SearchCounts(tasks[t].key, description)
                       THEN "remove" ELSE "add"
            /\ tasks[t].pc = "edit" =>
                   tasks[t].description = RunAlone(t).description

\* A toggle that found its subject on a card other mutations had filled is
\* about to write the removal.
C3_Witness ==
    \E t \in Tasks :
        /\ tasks[t].pc = "edit"
        /\ tasks[t].request = "toggle" /\ tasks[t].action = "remove"
        /\ Len(EntryLines(tasks[t].dim, tasks[t].fetched)) >= 2

(***************************************************************************)
(* The shape of a card.                                                    *)
(***************************************************************************)
\* C4: the header of a section is on the card if and only if the section
\* has at least one entry.
C4_HeaderIffEntries ==
    \A m \in MsgIds, dim \in Dims :
        SearchHeader(Header(dim), messages[m].description)
            <=> Len(EntryLines(dim, messages[m].description)) >= 1

\* C5: a section has exactly one total line if it has two entries or more,
\* and none if it has fewer.
C5_TotalIffTwo ==
    \A m \in MsgIds, dim \in Dims :
        Len(TotalLines(dim, messages[m].description)) =
            IF Len(EntryLines(dim, messages[m].description)) >= 2 THEN 1 ELSE 0

\* C6: every total line on a card was asked for exactly the entries that are
\* in its section now, in their order, and shows their aggregate.
C6_TotalOverCurrentEntries ==
    \A m \in MsgIds, dim \in Dims :
        LET totals == TotalLines(dim, messages[m].description) IN
        \A i \in 1..Len(totals) :
            /\ totals[i].ids = EntryIds(dim, messages[m].description)
            /\ totals[i].count =
                   AggregateCount(Param(dim), messages[m].description)

\* What C7 compares of a card: the entries, the headers, the totals.
Shape(description) ==
    [dim \in Dims |->
        [names  |-> EntryNames(dim, description),
         header |-> SearchHeader(Header(dim), description),
         totals |-> Len(TotalLines(dim, description))]]

\* The by-name gesture of a dimension is let through on this card.
Admitted(dim, description) ==
    ~SearchHeader(Header(IF dim = "user" THEN "place" ELSE "user"),
                  description)

\* The card after one by-name toggle of a subject, with no other mutation.
Toggled(dim, message, who, place) ==
    IF dim = "user"
    THEN Mutate(dim, message, "toggle", login(who), 0,
                observations(login(who)))
    ELSE Mutate(dim, message, "toggle", display_name(place), place,
                observations(display_name(place)))

\* C7: on every card, a toggle of a subject followed at once by a second
\* toggle of the same subject leaves the entries, the headers and the totals
\* of the card as they were.
C7_ToggleTwice ==
    \A m \in MsgIds, dim \in Dims, who \in Members, place \in PlaceIds :
        LET once  == Toggled(dim, messages[m], who, place)
            twice == Toggled(dim, once, who, place)
        IN  /\ Admitted(dim, messages[m].description)
            /\ Admitted(dim, once.description)
            => Shape(twice.description) = Shape(messages[m].description)

\* C8: on every card each subject key is on at most one entry line of its
\* section.
C8_UniqueKeys ==
    \A m \in MsgIds, dim \in Dims :
        LET entries == EntryLines(dim, messages[m].description) IN
        \A i \in 1..Len(entries), j \in 1..Len(entries) :
            entries[i].name = entries[j].name => i = j

\* An add or a toggle met a card on which its subject already was, and the
\* card, with two entries or more, was left as it was.
C8_Witness ==
    \E t \in Tasks, m \in MsgIds, dim \in Dims :
        /\ tasks[t].pc = "done" /\ tasks[t].result = "unchanged"
        /\ Len(EntryLines(dim, messages[m].description)) >= 2

(***************************************************************************)
(* A card that is deleted under a mutation.                                *)
(***************************************************************************)
\* C9: a mutation whose fetch finds the message gone ends at once, without
\* an exception; it writes nothing and the lock of the message is free again
\* or handed to the next waiting mutation.
C9_GoneIsSilent ==
    [][\A t \in Tasks :
          (/\ tasks[t].pc = "locked"
           /\ deleted[tasks[t].msg]
           /\ tasks'[t] # tasks[t])
          => /\ tasks'[t] = Ended("gone")
             /\ messages' = messages
             /\ LET lock == reaction_locks'[tasks[t].msg] IN
                IF reaction_locks[tasks[t].msg].waiters = <<>>
                THEN ~lock.locked
                ELSE \E u \in Tasks \ {t} :
                        /\ tasks[u].pc = "waiting"
                        /\ tasks'[u].pc = "locked"
                        /\ lock.locked]_vars

\* A mutation ended because its message was gone when it fetched it.
C9_Witness == \E t \in Tasks : tasks[t].result = "gone"

\* C10: no handler ends with an exception because its message was deleted
\* between its fetch and its write-back.
C10_EditOfDeletedIsNoop == \A t \in Tasks : tasks[t].result # "raised"

(***************************************************************************)
(* The prompter: one outstanding prompt per user.                          *)
(***************************************************************************)
\* Everything but the tasks.
shared == <<messages, deleted, reaction_locks, predicate_locks, serial>>

\* The tasks inside "async with self.predicate_locks[user.id]" of user u:
\* their prompt is sent and they wait for the reply or clean up after it.
Prompting(u) ==
    {t \in Tasks : tasks[t].member = u /\ tasks[t].pc \in {"prompt", "cleanup"}}

\* C11: a by-name gesture of a user whose earlier prompt is outstanding ends
\* in the step that takes it up, without waiting; it sends no prompt, and
\* neither the locks, the cards nor any other handler (the first prompt
\* included) are touched.
C11_SecondPromptDropped ==
    [][\A t \in Tasks, m \in MsgIds, member \in Members,
          emoji \in {"user", "place"}, event \in {"add", "remove"} :
          (/\ Prompting(member) # {}
           /\ Dispatch(t, m, member, emoji, event))
          => /\ tasks'[t].pc = "done"
             /\ tasks'[t].query = ""
             /\ \A u \in Tasks \ {t} : tasks'[u] = tasks[u]
             /\ UNCHANGED shared]_vars

\* A second attempt was dropped while the first prompt of the user waits for
\* its reply.
C11_Witness ==
    \E t \in Tasks, u \in Tasks :
        /\ tasks[t].pc = "prompt"
        /\ tasks[u].pc = "done" /\ tasks[u].result = "busy"

\* C12: every user has at most one outstanding prompt, over all messages and
\* both by-name gestures, and the user lock is held exactly while a prompt
\* of the user is outstanding.
C12_OnePromptPerUser ==
    \A u \in Members :
        /\ Cardinality(Prompting(u)) <= 1
        /\ predicate_locks[u].locked <=> Prompting(u) # {}

\* Two users have a prompt outstanding at the same time, one for a member
\* and one for a place; none excludes the other.
C12_Witness ==
    \E t \in Tasks, u \in Tasks :
        /\ tasks[t].pc = "prompt" /\ tasks[t].dim = "user"
        /\ tasks[u].pc = "prompt" /\ tasks[u].dim = "place"
        /\ tasks[t].member # tasks[u].member

(***************************************************************************)
(* The prompter: how a prompt ends.                                        *)
(***************************************************************************)
\* Task t takes a step that leaves the "async with" of its user lock.
CleansUp(t, reply) ==
    /\ tasks[t].pc = "cleanup" /\ tasks[t].reply = reply
    /\ tasks'[t] # tasks[t]

\* Task t goes on after query_locked returned to it.
GoesOn(t, reply) ==
    /\ tasks[t].pc = "returned" /\ tasks[t].reply = reply
    /\ tasks'[t] # tasks[t]

\* query_locked returns to its caller (it does not raise), its user lock is
\* free again and no card and no message lock was touched.
Returns(t) ==
    /\ tasks'[t].pc = "returned"
    /\ ~predicate_locks'[tasks[t].member].locked
    /\ UNCHANGED <<messages, deleted, reaction_locks, serial>>

\* C13: after a timeout of the wait, query_locked attempts the deletion of
\* the prompt and returns with the user lock released; what it returns is no
\* answer, so that the handler ends without a tally mutation.
C13_TimeoutReturnsNoAnswer ==
    [][\A t \in Tasks :
          /\ CleansUp(t, "timeout")
                => /\ Returns(t)
                   /\ tasks'[t].query \in {"deleted", "left"}
          /\ GoesOn(t, "timeout") => /\ tasks'[t] = Ended("none")
                                     /\ UNCHANGED shared]_vars

\* C14: a reply that starts with a prefix of this bot or of another bot of
\* the guild is no answer; the deletion of the prompt is attempted and its
\* failure ignored, the reply is left alone, the user lock is released, and
\* the handler ends without a tally mutation.
C14_CommandIsNoAnswer ==
    [][\A t \in Tasks :
          /\ \A prefix \in {BotPrefix, OtherBotPrefix} :
                Replied(t, prefix, Nobody, NoPlace)
                    => tasks'[t].reply = "command"
          /\ CleansUp(t, "command")
                => /\ Returns(t)
                   /\ tasks'[t].query \in {"deleted", "left"}
                   /\ tasks'[t].response = "left"
          /\ GoesOn(t, "command") => /\ tasks'[t] = Ended("none")
                                     /\ UNCHANGED shared]_vars

\* A reply with a prefix of another bot was discarded and its prompt deleted.
C14_Witness ==
    \E t \in Tasks :
        /\ tasks[t].pc = "returned" /\ tasks[t].reply = "command"
        /\ tasks[t].query = "deleted"

\* C15: after an answer the deletion of the prompt and of the reply is
\* attempted; whether or not the platform carries it out, query_locked
\* returns with the user lock released and the text of the reply, and a text
\* that names a member or a place hands that subject to the tally with
\* action "toggle".
C15_AnswerIsToggled ==
    [][\A t \in Tasks :
          /\ CleansUp(t, "answer")
                => /\ Returns(t)
                   /\ tasks'[t].query \in {"deleted", "left"}
                   /\ tasks'[t].response \in {"deleted", "left"}
                   /\ tasks'[t].who = tasks[t].who
                   /\ tasks'[t].place = tasks[t].place
          /\ (GoesOn(t, "answer") /\ tasks[t].dim = "user"
                                  /\ tasks[t].who # Nobody)
                => tasks'[t] = Started(tasks[t].msg, "user", "toggle",
                                       login(tasks[t].who), 0)
          /\ (GoesOn(t, "answer") /\ tasks[t].dim = "place"
                                  /\ tasks[t].place # NoPlace)
                => tasks'[t] = Started(tasks[t].msg, "place", "toggle",
                                       display_name(tasks[t].place),
                                       tasks[t].place)]_vars

\* The platform deleted neither the prompt nor the reply, and the reply,
\* which names a member, is about to be resolved.
C15_Witness ==
    \E t \in Tasks :
        /\ tasks[t].pc = "returned" /\ tasks[t].reply = "answer"
        /\ tasks[t].query = "left" /\ tasks[t].response = "left"
        /\ tasks[t].who # Nobody

\* The reply of task t names no member (user prompt) or no place (place
\* prompt).
NamesNone(t) ==
    IF tasks[t].dim = "user" THEN tasks[t].who = Nobody
    ELSE tasks[t].place = NoPlace

\* C16: an answer that names nobody puts an error message into the channel,
\* which the handler deletes in its next step, and neither step touches a
\* card or a lock; no other step of any handler puts an error message into
\* the channel.
C16_OnlyUnresolvedSendsError ==
    [][\A t \in Tasks :
          /\ (GoesOn(t, "answer") /\ NamesNone(t))
                => tasks'[t].pc = "error" /\ UNCHANGED shared
          /\ (tasks[t].pc = "error" /\ tasks'[t] # tasks[t])
                => tasks'[t].pc = "done" /\ UNCHANGED shared
          /\ (tasks'[t].pc = "error" /\ tasks[t].pc # "error")
                => GoesOn(t, "answer") /\ NamesNone(t)]_vars

\* The error message of an unresolved place name is in the channel while
\* the other handler is inside its tally mutation.
C16_Witness ==
    \E t \in Tasks, u \in Tasks :
        /\ tasks[t].pc = "error"
        /\ tasks[u].pc \in InCycle

(***************************************************************************)
(* The intake and the routing of reactions.                                *)
(***************************************************************************)
\* The events C17 is about: not on a guild channel, of a bot or of somebody
\* who is no member, on a message that was deleted, or on a message that is
\* not the bot's own.
Discardable(payload) ==
    \/ payload.guild_id = NoGuild
    \/ payload.user_id \in {OtherBot, Stranger}
    \/ payload.message_id = TheirMessage
    \/ payload.message_id \in MsgIds /\ deleted[payload.message_id]

\* C17: the handler of such an event ends in the step that takes the event
\* up; it sends no prompt, and no lock, no card and no other handler is
\* touched.
C17_InvalidEventDiscarded ==
    [][\A t \in Tasks, payload \in Payloads :
          (/\ tasks'[t] # tasks[t]
           /\ Discardable(payload)
           /\ \E emoji \in Emojis, event \in {"add", "remove"} :
                  Reaction(t, payload, emoji, event))
          => /\ tasks'[t].pc = "done"
             /\ tasks'[t].query = ""
             /\ \A u \in Tasks \ {t} : tasks'[u] = tasks[u]
             /\ UNCHANGED shared]_vars

\* An event was discarded while a prompt is outstanding and its user lock
\* held.
C17_Witness ==
    \E t \in Tasks, u \in Tasks :
        /\ tasks[t].pc = "done" /\ tasks[t].result = "discarded"
        /\ tasks[u].pc = "prompt"

\* The banner line of a section is in the body of the card.
Shows(header, description) ==
    \E i \in 1..Len(description) : description[i] = header

\* The gestures of a dimension: the self gesture and the by-name gesture.
Gestures(dim) == IF dim = "user" THEN {"self", "user"} ELSE {"home", "place"}

Other(dim) == IF dim = "user" THEN "place" ELSE "user"

\* C18: a gesture of one dimension on a card whose body shows the header of
\* the other dimension ends in the step that takes it up: no prompt is sent,
\* no tally mutation is started, and no lock, no card and no other handler
\* is touched.
C18_OtherDimensionSuppressed ==
    [][\A t \in Tasks :
          (tasks'[t] # tasks[t] /\ tasks[t].pc \in {"idle", "done"})
          => \A m \in MsgIds, dim \in Dims :
                Shows(Header(Other(dim)), messages[m].description)
                => \A member \in Members, emoji \in Gestures(dim),
                      event \in {"add", "remove"} :
                      Dispatch(t, m, member, emoji, event)
                      => /\ tasks'[t].pc = "done"
                         /\ tasks'[t].query = ""
                         /\ \A u \in Tasks \ {t} : tasks'[u] = tasks[u]
                         /\ UNCHANGED shared]_vars

\* A gesture was dropped on a card that shows the header of a place section
\* with entries and no header of a user section.
C18_Witness ==
    \E t \in Tasks, m \in MsgIds :
        /\ tasks[t].pc = "done" /\ tasks[t].result = "suppressed"
        /\ Shows(TAXON_PLACES_HEADER, messages[m].description)
        /\ ~Shows(TAXON_COUNTS_HEADER, messages[m].description)
        /\ Len(EntryLines("place", messages[m].description)) >= 1

\* C19: no card shows the header of the user section and the header of the
\* place section at the same time.
C19_OneDimension ==
    \A m \in MsgIds :
        ~(/\ Shows(TAXON_COUNTS_HEADER, messages[m].description)
          /\ Shows(TAXON_PLACES_HEADER, messages[m].description))

SelfGesture(t, m, member, emoji, event) ==
    /\ tasks'[t].pc = "start"
    /\ Dispatch(t, m, member, emoji, event)

HoldsMessageLock(t, m) == tasks[t].msg = m /\ tasks[t].pc \in InCycle

\* Task t holds the lock of user u.
HoldsUserLock(t, u) ==
    tasks[t].member = u /\ tasks[t].pc \in {"prompt", "cleanup"}

\* Task t ends with an exception: "except Exception: LOG.error(...); raise".
Raises(t) == tasks'[t] # tasks[t] /\ tasks'[t] = Ended("raised")

\* C21: a handler that ends with an exception (logged and raised again by
\* the except clause of handle_member_reaction) is over and holds no lock:
\* after its last step every message lock and every user lock that is held
\* is held by another handler that is inside the block of that lock.  No
\* card is changed by the step, and no other handler is touched, but for
\* the one the message lock is handed to.
C21_ExceptionIsLocal ==
    [][\A t \in Tasks :
          Raises(t)
          => /\ tasks'[t].pc = "done"
             /\ \A m \in MsgIds :
                   reaction_locks'[m].locked
                   => \E u \in Tasks \ {t} :
                         tasks'[u].msg = m /\ tasks'[u].pc \in InCycle
             /\ \A member \in Members :
                   predicate_locks'[member].locked
                   => \E u \in Tasks \ {t} :
                         /\ tasks'[u].member = member
                         /\ tasks'[u].pc \in {"prompt", "cleanup"}
             /\ \A u \in Tasks \ {t} :
                   \/ tasks'[u] = tasks[u]
                   \/ /\ tasks[u].pc = "waiting"
                      /\ tasks'[u] = [tasks[u] EXCEPT !.pc = "locked"]
             /\ UNCHANGED <<messages, deleted, serial>>]_vars

\* A handler ended with an exception, and the handler of a later or
\* concurrent reaction is about to write its mutation of the card.
C21_Witness ==
    \E t \in Tasks, u \in Tasks :
        /\ tasks[t].pc = "done" /\ tasks[t].result = "raised"
        /\ tasks[u].pc = "edit" /\ ~deleted[tasks[u].msg]

\* The message locks and the user locks that are held.
HeldMessageLocks == {m \in DOMAIN reaction_locks : reaction_locks[m].locked}

HeldUserLocks == {u \in DOMAIN predicate_locks : predicate_locks[u].locked}

\* C22: every held message lock has one holder, a handler inside the block
\* of that lock, and there are as many held message locks as handlers inside
\* such a block, so that no handler holds two; the same for the user locks.
\* A step of a handler that holds a lock of one kind takes no other lock of
\* that kind.
C22_OneLockOfAKind ==
    /\ [](/\ \A m \in HeldMessageLocks :
                Cardinality({t \in Tasks : HoldsMessageLock(t, m)}) = 1
          /\ Cardinality(HeldMessageLocks) =
                Cardinality({t \in Tasks : tasks[t].pc \in InCycle})
          /\ \A u \in HeldUserLocks :
                Cardinality({t \in Tasks : HoldsUserLock(t, u)}) = 1
          /\ Cardinality(HeldUserLocks) =
                Cardinality({t \in Tasks :
                                tasks[t].pc \in {"prompt", "cleanup"}}))
    /\ [][\A t \in Tasks :
            tasks'[t] # tasks[t]
            => /\ tasks[t].pc \in InCycle
                  => \A m \in Cards \ {tasks[t].msg} :
                        reaction_locks'[m] = reaction_locks[m]
               /\ tasks[t].pc \in {"prompt", "cleanup"}
                  => \A u \in Members \ {tasks[t].member} :
                        predicate_locks'[u] = predicate_locks[u]]_vars

\* Two handlers hold a message lock each, of the two cards, at the same
\* time.
C22_Witness ==
    \E t \in Tasks, u \in Tasks :
        /\ HoldsMessageLock(t, "m") /\ HoldsMessageLock(u, "n")
        /\ HeldMessageLocks = Cards

(***************************************************************************)
(* Mutations of different cards, prompts of different users.               *)
(***************************************************************************)
\* The next step of the tally mutation of task t.
Mutating(t) == Acquire(t) \/ Fetch(t) \/ Count(t) \/ Total(t) \/ Edit(t)

\* Task t is inside the block of the lock of one card, and task u is at or
\* inside the block of the lock of another card.
OnOtherCards(t, u) ==
    /\ t # u
    /\ tasks[t].pc \in InCycle
    /\ tasks[u].pc \in {"start"} \cup InCycle
    /\ tasks[u].msg # tasks[t].msg

\* C23: a mutation waits only for a holder of the lock of its own card.
\* While a mutation of one card is inside the block of its lock, the next
\* step of a mutation of another card can be taken; the step that asks for
\* the lock of a card no handler holds gets it, whatever locks of other
\* cards are held; and no step of a mutation touches a mutation of another
\* card, its lock or its card.
C23_CardsAreIndependent ==
    /\ [](\A u \in Tasks :
            /\ tasks[u].pc = "waiting"
               => \E v \in Tasks \ {u} : HoldsMessageLock(v, tasks[u].msg)
            /\ \A t \in Tasks : OnOtherCards(t, u) => ENABLED Mutating(u))
    /\ [][\A u \in Tasks :
            tasks'[u] # tasks[u]
            => /\ (/\ tasks[u].pc = "start"
                   /\ \A v \in Tasks : ~HoldsMessageLock(v, tasks[u].msg))
                  => tasks'[u].pc = "locked"
               /\ \A t \in Tasks :
                     OnOtherCards(t, u)
                     => /\ tasks'[t] = tasks[t]
                        /\ reaction_locks'[tasks[t].msg] =
                               reaction_locks[tasks[t].msg]
                        /\ messages'[tasks[t].msg] =
                               messages[tasks[t].msg]]_vars

\* The mutations of the two cards are both suspended in their edit.
C23_Witness ==
    \E t \in Tasks, u \in Tasks :
        /\ tasks[t].pc = "edit" /\ tasks[t].msg = "m"
        /\ tasks[u].pc = "edit" /\ tasks[u].msg = "n"

\* C24: a by-name gesture of a user who has no prompt outstanding opens a
\* prompt, whatever prompts of other users are outstanding, on this card or
\* another; and a message that comes in ends the wait of a prompt only if
\* its author is the user the prompt was sent to and its channel is the
\* channel of the prompt, and it touches no other handler.  (The by-name
\* gesture of a dimension is named as the dimension.)
C24_PromptsAreIndependent ==
    [][\A t \in Tasks :
          /\ (tasks[t].pc \in {"idle", "done"} /\ tasks'[t] # tasks[t])
             => \A m \in Cards, member \in CardMembers, dim \in Dims,
                   event \in {"add", "remove"} :
                   (/\ Prompting(member) = {}
                    /\ Admitted(dim, messages[m].description)
                    /\ CardReaction(t, m, member, dim, event))
                   => /\ tasks'[t].pc = "prompt"
                      /\ tasks'[t].member = member
                      /\ tasks'[t].msg = m
                      /\ \A u \in Tasks \ {t} : tasks'[u] = tasks[u]
          /\ (tasks[t].pc = "prompt" /\ tasks'[t].response = "there")
             => \A author \in CardMembers, chan \in Channels,
                   prefix \in Prefixes :
                   Message(author, chan, prefix, tasks'[t].who, tasks'[t].place)
                   => /\ tasks[t].member = author
                      /\ channel(tasks[t].msg) = chan
                      /\ \A u \in Tasks \ {t} : tasks'[u] = tasks[u]]_vars

\* Two users were prompted on the same card; the reply of one of them was
\* taken for their own prompt, and the prompt of the other is outstanding.
C24_Witness ==
    \E t \in Tasks, u \in Tasks :
        /\ tasks[t].pc = "prompt"
        /\ tasks[u].pc = "cleanup" /\ tasks[u].reply = "answer"
        /\ tasks[u].msg = tasks[t].msg
        /\ tasks[u].member # tasks[t].member

(***************************************************************************)
(* The registries of the locks.                                            *)
(***************************************************************************)
\* Task t asks for the lock of message m in this step.
Requests(t, m) ==
    /\ tasks[t].pc = "start" /\ tasks[t].msg = m
    /\ tasks'[t].pc \in {"locked", "waiting"}

\* Task t leaves the block of the lock of message m in this step.
Leaves(t, m) ==
    /\ tasks[t].pc \in InCycle /\ tasks[t].msg = m
    /\ tasks'[t].pc = "done"

\* C25: the lock of a message id is created by the first request for it and
\* stays in the registry.  Every later request meets that lock as it is: a
\* request for a held lock queues behind the earlier waiters and leaves the
\* holder in place.  A lock changes only by a request for its own id or by
\* its holder leaving, so that no request installs a second lock for an id.
\* The same holds for the lock of a user id, which changes only when a prompt
\* of that user is opened or is over.  (A user id that is not in the
\* registry yet reads as a lock that is free.)
C25_RegistryIsStable ==
    [][/\ \A m \in Cards :
            LET lock == reaction_locks[m] IN
            /\ lock.created => reaction_locks'[m].created
            /\ ~lock.created => ~lock.locked /\ lock.waiters = <<>>
            /\ \A t \in Tasks :
                  Requests(t, m)
                  => /\ reaction_locks'[m].created
                     /\ reaction_locks'[m].locked
                     /\ lock.locked
                        => /\ reaction_locks'[m].waiters =
                                 Append(lock.waiters, t)
                           /\ \A u \in Tasks \ {t} : tasks'[u] = tasks[u]
            /\ reaction_locks'[m] # lock
               => \E t \in Tasks : Requests(t, m) \/ Leaves(t, m)
       /\ \A u \in Members :
            predicate_locks'[u] # predicate_locks[u]
            => \E t \in Tasks :
                  \/ /\ tasks'[t].pc = "prompt" /\ tasks'[t].member = u
                     /\ tasks[t].pc \in {"idle", "done"}
                  \/ /\ tasks[t].pc = "cleanup" /\ tasks[t].member = u
                     /\ tasks'[t].pc # "cleanup"]_vars

\* The first two reactions on a card came together: one handler created the
\* lock of the card and is inside its block, the other found that lock and
\* waits for it; the lock of the other card does not exist yet.
C25_Witness ==
    \E t \in Tasks, u \in Tasks, m \in Cards, n \in Cards :
        /\ HoldsMessageLock(t, m) /\ messages[m] = NewCard
        /\ tasks[u].pc = "waiting" /\ tasks[u].msg = m
        /\ reaction_locks[m].waiters = <<u>>
        /\ ~reaction_locks[n].created

(***************************************************************************)
(* The text of a card, written by one mutation and read by the next.       *)
(***************************************************************************)
\* The card shows the section of dim and not the other one.
ShowsOnly(dim, description) ==
    /\ Shows(Header(dim), description)
    /\ ~Shows(Header(Other(dim)), description)

\* The number of entries the next mutation of a section counts in a body,
\* once it has dropped the total: len(matches) of the first findall.
EntriesRead(dim, description) ==
    IF dim = "user" THEN Len(UserMatches(RemoveTotal(description)))
    ELSE PlaceLineMatches(RemoveTotal(description))

\* C26: on every card that shows one section, the next mutation reads back
\* the entries that are written in the body: it counts as many entries as
\* there are, it reads their subjects in the order of the text, and what it
\* drops as the total is the total line of the section.
C26_RoundTrip ==
    \A m \in MsgIds, dim \in Dims :
        LET description == messages[m].description IN
        ShowsOnly(dim, description)
        => /\ EntriesRead(dim, description) =
                  Len(EntryLines(dim, description))
           /\ TotalMatches(dim, RemoveTotal(description)) =
                  EntryIds(dim, description)
           /\ EntryLines(dim, RemoveTotal(description)) =
                  EntryLines(dim, description)
           /\ TotalLines(dim, RemoveTotal(description)) = <<>>

\* A line of text that is no part of a tally.
NoteLine == [kind |-> "text", text |-> "note"]

\* The lines of a body outside the tally sections, in order: the text that
\* is no header.
Outside(description) ==
    KeepLines(description,
              {i \in 1..Len(description) :
                  /\ description[i].kind = "text"
                  /\ description[i] # TAXON_COUNTS_HEADER
                  /\ description[i] # TAXON_PLACES_HEADER})

\* The message with a line of text put in after line k of its body.
WithNote(message, k) ==
    [message EXCEPT !.description =
        SubSeq(@, 1, k) \o <<NoteLine>> \o SubSeq(@, k + 1, Len(@))]

\* C27: every write-back of a mutation leaves the lines outside the tally
\* sections as they were, in content and order.  The same holds for every
\* reachable body with one more line of text in it, wherever that line is:
\* a mutation of either section, adding or removing, leaves that line and
\* the other lines outside the tally as they were.
C27_OutsideUntouched ==
    /\ [][\A m \in MsgIds :
            Outside(messages'[m].description) =
                Outside(messages[m].description)]_vars
    /\ [](\A m \in MsgIds : \A k \in 0..Len(messages[m].description) :
            LET noted == WithNote(messages[m], k) IN
            /\ \A who \in Members :
                  Outside(Toggled("user", noted, who, NoPlace).description)
                      = Outside(noted.description)
            /\ \A place \in PlaceIds :
                  Outside(Toggled("place", noted, Nobody, place).description)
                      = Outside(noted.description))

\* A removal has taken the last entry and the header off a card, and the
\* title is what is left.
C27_Witness ==
    \E t \in Tasks, m \in MsgIds :
        /\ tasks[t].pc = "done" /\ tasks[t].result = "edited"
        /\ reaction_locks[m].created
        /\ messages[m].description = <<TitleLine>>

(***************************************************************************)
(* The order of the entries.                                               *)
(***************************************************************************)
\* The entries of `old` that are among the entries of `new`, in the order of
\* `old`.
Remaining(old, new) ==
    KeepLines(old, {i \in 1..Len(old) :
                       \E j \in 1..Len(new) : new[j] = old[i]})

\* No entry of the section stands after a total line.
EntriesBeforeTotal(dim, description) ==
    \A i \in 1..Len(description), j \in 1..Len(description) :
        (IsTotalLine(description[i]) /\ IsEntryOf(dim, description[j]))
        => j < i

\* C28: the write-back of an add leaves the entries of its section as they
\* were, in their order, with the new entry after them and before the total
\* line; the write-back of a remove leaves the entries that remain in the
\* order they had.
C28_AppendOrder ==
    [][\A t \in Tasks :
          (tasks[t].pc = "edit" /\ ~deleted[tasks[t].msg]
                                /\ tasks'[t] # tasks[t])
          => LET dim == tasks[t].dim
                 old == EntryLines(dim, messages[tasks[t].msg].description)
                 new == EntryLines(dim, messages'[tasks[t].msg].description)
             IN  IF tasks[t].action = "add"
                 THEN /\ new = Append(old, EntryLine(dim, tasks[t].key,
                                                     tasks[t].place,
                                                     tasks[t].count))
                      /\ EntriesBeforeTotal(
                             dim, messages'[tasks[t].msg].description)
                 ELSE /\ Len(new) < Len(old)
                      /\ new = Remaining(old, new)]_vars

\* A removal that leaves two entries of a section with three is about to
\* be written.
C28_Witness ==
    \E t \in Tasks :
        /\ tasks[t].pc = "edit" /\ tasks[t].action = "remove"
        /\ Len(EntryLines(tasks[t].dim, tasks[t].fetched)) = 3
        /\ Len(EntryLines(tasks[t].dim, tasks[t].description)) = 2

(***************************************************************************)
(* The end of a prompt that nobody answered.                               *)
(***************************************************************************)
\* C29: after a timeout of the wait, whether or not the platform carries out
\* the deletion of the prompt, query_locked does not raise: it returns no
\* answer to its caller with the user lock released, and no card is
\* changed.
C29_TimeoutRecoveredLocally ==
    [][\A t \in Tasks :
          (/\ tasks[t].pc = "cleanup"
           /\ tasks[t].reply = "timeout"
           /\ tasks'[t] # tasks[t])
          => /\ tasks'[t].result # "raised"
             /\ tasks'[t].pc = "returned"
             /\ tasks'[t].response = ""
             /\ ~predicate_locks'[tasks[t].member].locked
             /\ messages' = messages]_vars

(***************************************************************************)
(* Termination.                                                            *)
(***************************************************************************)
\* What the replies name in the fair specification.
FairWho == {"u1", Nobody}

FairPlaces == {1, NoPlace}

\* The next step of the handler of task t, whatever the platform answers:
\* the wait for a reply ends with a reply or with the timeout, and every
\* other call returns or fails.
Progress(t) ==
    \/ TimedOut(t)
    \/ \E prefix \in Prefixes, who \in FairWho, place \in FairPlaces :
          Replied(t, prefix, who, place)
    \/ \E bulk \in BOOLEAN, single \in BOOLEAN : Cleanup(t, bulk, single)
    \/ Resolve(t)
    \/ \E ok \in BOOLEAN : ErrorDelete(t, ok)
    \/ Acquire(t)
    \/ Fetch(t)
    \/ Count(t)
    \/ Total(t)
    \/ Edit(t)

FairNext ==
    \/ \E t \in Tasks, m \in MsgIds, member \in CardMembers,
          emoji \in Emojis, event \in {"add", "remove"} :
          CardReaction(t, m, member, emoji, event)
    \/ \E t \in Tasks : Progress(t)
    \/ \E m \in MsgIds : Delete(m)

\* The handlers under a fair event loop: a handler that can take its next
\* step takes it.
FairSpec ==
    Init /\ [][FairNext]_vars /\ \A t \in Tasks : WF_vars(Progress(t))

\* Task t is handling a reaction.
Handling(t) == tasks[t].pc \notin {"idle", "done"}

\* C30: under a fair event loop every handler ends; a handler that waits
\* for a message lock has a holder in front of it and gets the lock; every
\* prompt is over after a reply or the timeout, and its user lock is free
\* again; a handler that is over holds no lock.
C30_EveryHandlerEnds ==
    /\ [](\A t \in Tasks :
            /\ tasks[t].pc = "waiting"
               => \E u \in Tasks \ {t} : HoldsMessageLock(u, tasks[t].msg)
            /\ ~Handling(t)
               => /\ \A m \in MsgIds : ~HoldsMessageLock(t, m)
                  /\ \A u \in Members : ~HoldsUserLock(t, u))
    /\ \A t \in Tasks : Handling(t) ~> ~Handling(t)
    /\ \A t \in Tasks : tasks[t].pc = "waiting" ~> tasks[t].pc = "locked"
    /\ \A t \in Tasks : tasks[t].pc = "prompt" ~> tasks[t].pc = "cleanup"
    /\ \A u \in Members :
          predicate_locks[u].locked ~> ~predicate_locks[u].locked

\* A handler waits for the lock of a card whose holder is suspended in its
\* edit, while the card has been deleted: the edit will fail.
C30_Witness ==
    \E t \in Tasks, u \in Tasks :
        /\ tasks[t].pc = "waiting"
        /\ tasks[u].pc = "edit" /\ deleted[tasks[u].msg]

(***************************************************************************)
(* The user lock and the message lock.                                     *)
(***************************************************************************)
\* The handlers inside the block of a user lock, and inside the block of a
\* message lock.
InPrompt == {t \in Tasks : tasks[t].pc \in {"prompt", "cleanup"}}

InMutation == {t \in Tasks : tasks[t].pc \in InCycle}

\* C31: the user locks that are held are those of the handlers inside a
\* prompt, one each, and the message locks that are held are those of the
\* handlers inside a mutation, one each: no handler holds a lock of both
\* kinds.  The prompter has released the user lock when it returns, before
\* the subject is handed to the mutation.  While a prompt on a card is
\* outstanding, the next step of a mutation of that card can be taken, it
\* gets the lock if no mutation holds it, and its steps leave the prompt and
\* the user locks alone.
C31_LocksNeverNested ==
    /\ [](/\ InPrompt \cap InMutation = {}
          /\ Cardinality(HeldUserLocks) = Cardinality(InPrompt)
          /\ Cardinality(HeldMessageLocks) = Cardinality(InMutation)
          /\ \A t \in InPrompt, u \in Tasks :
                (tasks[u].pc \in {"start"} \cup InCycle
                    /\ tasks[u].msg = tasks[t].msg)
                => ENABLED Mutating(u))
    /\ [][\A t \in Tasks :
            /\ (tasks[t].pc = "cleanup" /\ tasks'[t] # tasks[t])
               => /\ tasks'[t].pc \in {"returned", "done"}
                  /\ ~predicate_locks'[tasks[t].member].locked
            /\ (tasks[t].pc = "returned" /\ tasks'[t].pc = "start")
               => /\ UNCHANGED shared
                  /\ \A u \in HeldUserLocks :
                        \E v \in Tasks \ {t} : HoldsUserLock(v, u)
            /\ (tasks[t].pc \in {"start"} \cup InCycle
                    /\ tasks'[t] # tasks[t])
               => /\ predicate_locks' = predicate_locks
                  /\ \A u \in InPrompt : tasks'[u] = tasks[u]
                  /\ (/\ tasks[t].pc = "start"
                      /\ \A v \in Tasks : ~HoldsMessageLock(v, tasks[t].msg))
                     => tasks'[t].pc = "locked"]_vars

\* A prompt on a card is outstanding while the mutation of another user is
\* about to write the same card.
C31_Witness ==
    \E t \in Tasks, u \in Tasks :
        /\ tasks[t].pc = "prompt"
        /\ tasks[u].pc = "edit" /\ tasks[u].msg = tasks[t].msg
        /\ ~deleted[tasks[u].msg]

(***************************************************************************)
(* The subject a mutation is for.                                          *)
(***************************************************************************)
\* The key of a subject of a section: the login of a member, the display
\* name of a place.
Keys(dim) ==
    IF dim = "user" THEN {login(who) : who \in Members}
    ELSE {display_name(place) : place \in PlaceIds}

\* counts_pat of a key finds an entry in the body.
Present(key, description) == SearchCounts(key, description)

\* The entries of a section other than the one of a key, in order.
OtherEntries(dim, key, description) ==
    LET entries == EntryLines(dim, description) IN
    KeepLines(entries, {i \in 1..Len(entries) : entries[i].name # key})

\* C32: on every card that shows one section, a key of that section is
\* found present if and only if the section has the entry of that key, and
\* a remove or an add of that key leaves the entries of the other keys as
\* they are.
C32_ExactKey ==
    \A m \in MsgIds, dim \in Dims :
        LET description == messages[m].description IN
        ShowsOnly(dim, description)
        => \A key \in Keys(dim) :
              /\ Present(key, description)
                    <=> key \in EntryNames(dim, description)
              /\ \A action \in {"add", "remove"} :
                    OtherEntries(dim, key,
                        TotalsHead(dim, description, action, key))
                    = OtherEntries(dim, key, description)

(***************************************************************************)
(* A mutation with nothing to change.                                      *)
(***************************************************************************)
\* The section of the mutation of task t has the entry of its subject in
\* the body that is on the platform.
HasOwnEntry(t) ==
    tasks[t].key \in EntryNames(tasks[t].dim,
                                messages[tasks[t].msg].description)

\* C33: a mutation that fetches a body in which its subject has an entry
\* and is to add it, or in which its subject has no entry and is to remove
\* it, ends there: it edits nothing, raises nothing, and leaves the lock of
\* the card.
C33_NothingToChange ==
    [][\A t \in Tasks :
          (/\ tasks[t].pc = "locked"
           /\ ~deleted[tasks[t].msg]
           /\ tasks'[t] # tasks[t]
           /\ \/ tasks[t].request = "add" /\ HasOwnEntry(t)
              \/ tasks[t].request = "remove" /\ ~HasOwnEntry(t))
          => /\ tasks'[t] = Ended("unchanged")
             /\ messages' = messages]_vars

(***************************************************************************)
(* Members the tables do not know.                                         *)
(***************************************************************************)
\* The step of task t is a no-op: the handler is over, it sent no prompt,
\* and no card, no lock and no other handler was touched.
SilentNoOp(t) ==
    /\ tasks'[t].pc = "done"
    /\ tasks'[t].query = ""
    /\ \A u \in Tasks \ {t} : tasks'[u] = tasks[u]
    /\ UNCHANGED shared

\* C34: every gesture of a guild member the user table does not know is a
\* no-op, on any card.  The home gesture of a known member without a home
\* place is a no-op, and the home gesture of a known member with a home
\* place either starts the mutation for that place or, the place not being
\* found, is a no-op.
C34_UnknownIsSilent ==
    [][\A t \in Tasks :
          (tasks[t].pc \in {"idle", "done"} /\ tasks'[t] # tasks[t])
          => \A m \in MsgIds, event \in {"add", "remove"} :
                /\ \A emoji \in Emojis :
                      Dispatch(t, m, Guest, emoji, event) => SilentNoOp(t)
                /\ \A member \in Members :
                      Dispatch(t, m, member, "home", event)
                      => \/ SilentNoOp(t)
                         \/ /\ home(member) # NoHome
                            /\ tasks'[t] =
                                  Started(m, "place", event,
                                          display_name(home(member)),
                                          home(member))]_vars

\* A gesture of a member the user table does not know was dropped while
\* the prompt of a known member is outstanding; no lock of the card exists.
C34_Witness ==
    \E t \in Tasks, u \in Tasks :
        /\ tasks[t].pc = "done" /\ tasks[t].result = "unregistered"
        /\ tasks[u].pc = "prompt"
        /\ ~reaction_locks[tasks[u].msg].created
        /\ ~predicate_locks[Guest].locked

====
